---- MODULE Spec2Model ----
(***************************************************************************)
(* DineDash: the order lifecycle and the delivery matching of              *)
(* dinedashapp/views.py over the tables of dinedashapp/models.py.          *)
(*                                                                         *)
(* Every HTTP request is a sequence of database statements.  The project   *)
(* runs Django's default autocommit mode (no transaction.atomic, no        *)
(* select_for_update anywhere in views.py), so every statement commits on  *)
(* its own and the statements of different requests interleave.  A request *)
(* in flight is an element of reqs holding the Python objects it has read      *)
(* (snap) and the statement it executes next (pc).  Model.save() without   *)
(* update_fields writes EVERY column of the row from the in-memory object. *)
(*                                                                         *)
(* Order.accepted_by, Order.rejected_by, Order.minutes_away, the two       *)
(* statuses READY_FOR_PICKUP and IN_TRANSIT and the contractor's location  *)
(* are modelled from their uses in views.py (and forms.py): the Order class *)
(* of models.py does not declare them.                                     *)
(*                                                                         *)
(* Money is in cents, distances in thousandths of a mile.                  *)
(***************************************************************************)
EXTENDS Integers, FiniteSets, Sequences, Bags, TLC

VARIABLES
    orders,       \* Order table: id -> row (rows are never deleted by a view)
    rejected,     \* Order.rejected_by m2m table: set of <<contractor, order id>>
    items,        \* OrderItem table: set of rows [id, order, menu_item, quantity]
    item_seq,     \* last OrderItem primary key handed out
    payments,     \* Payment table: set of rows [order, user, amount_paid]
    price,        \* MenuItem.price per menu item
    cust_loc,     \* CustomerInfo location coordinate per customer (NULL: none)
    del_loc,      \* DeliveryContractorInfo location coordinate per contractor
    cust_address, \* CustomerInfo.location, the address text ("": blank)
    del_address,  \* DeliveryContractorInfo.location, the address text
    geocoded,     \* what geolocator.geocode answered to the last account form
                  \* (<<>>: it was not called)
    now,          \* the clock read by datetime_now()
    reqs,         \* requests in flight: a bag of request records
    accept_ok,    \* responses: <<contractor, order id>> of every accept that returned 200
    shown,        \* response: the page of the last GET of delivery_orders_list
    place_failed, \* response: <<customer, order id>> of the last PlaceOrderView
                  \* POST that ended in Order.DoesNotExist (<<>>: none yet)
    response      \* response: who asked which view for which id, and the
                  \* outcome, for the last request answered by a gate, a
                  \* lookup or an account form

db   == <<orders, rejected, items, item_seq, payments, price>>
geo  == <<cust_loc, del_loc, cust_address, del_address, geocoded>>
vars == <<orders, rejected, items, item_seq, payments, price, cust_loc, del_loc,
          cust_address, del_address, geocoded, now, reqs, accept_ok, shown,
          place_failed, response>>

(***************************************************************************)
(* Bounds of the model.                                                    *)
(***************************************************************************)
MaxOrders   == 1      \* Order rows ever created
MaxInFlight == 2      \* requests in flight at once
MaxClock    == 3      \* readings of the clock
MaxQty      == 2      \* largest quantity a customer enters
MaxItemId   == 2      \* OrderItem primary keys ever handed out
MaxCarts    == 2      \* Order rows ever created where customers race for a cart

OrderIds == 1..MaxOrders

(***************************************************************************)
(* The principals and the menu: the rows registration and menu-item        *)
(* creation have stored before the first order.                            *)
(***************************************************************************)
Customers   == {"u1", "u2"}
Restaurants == {"r1", "r2"}
Contractors == {"d1", "d2"}
MenuItems   == {"m1", "m2"}
\* the menu of the second restaurant
OtherMenu   == {"m3"}
PriceChoices == {350, 500}

\* MenuItem.restaurant
MenuRestaurant(m) == IF m \in OtherMenu THEN "r2" ELSE "r1"

\* Restaurant.location_x/y_coordinate (not null), as a position on the equator
\* in steps of 0.05 degrees of longitude
RestaurantLoc(r) == 1

\* null=True columns
NULL == -1
\* accepted_by IS NULL
NoContractor == "null"

\* Order.OrderStatus
NOT_PLACED_YET   == "Np"
PLACED           == "Pl"
READY_FOR_PICKUP == "Rp"
IN_TRANSIT       == "It"
DELIVERED        == "De"

\* position of a status in the lifecycle
Rank(s) ==
    CASE s = NOT_PLACED_YET -> 0
      [] s = PLACED -> 1
      [] s = READY_FOR_PICKUP -> 2
      [] s = IN_TRANSIT -> 3
      [] s = DELIVERED -> 4

\* a fresh Order row: the column defaults
NewOrder(u, r) ==
    [user |-> u, restaurant |-> r, status |-> NOT_PLACED_YET, total_cost |-> NULL,
     date_placed |-> NULL, date_delivered |-> NULL, accepted_by |-> NoContractor,
     minutes_away |-> NULL]

RECURSIVE SumCost(_)
\* Sum(F("quantity") * F("menu_item__price"), default=0) over a set of line items
SumCost(S) ==
    IF S = {} THEN 0
    ELSE LET i == CHOOSE x \in S : TRUE
         IN  i.quantity * price[i.menu_item] + SumCost(S \ {i})

\* Order.items of order id o
ItemsOf(o) == {i \in items : i.order = o}

\* calc_total_cost without its status test: the total is recomputed from the
\* line items whatever the status
calc_total_cost_recomputed(ord, o) == SumCost(ItemsOf(o))

\* Order.calc_total_cost on the in-memory object ord of row o
calc_total_cost(ord, o) ==
    IF ord.status = NOT_PLACED_YET THEN SumCost(ItemsOf(o)) ELSE ord.total_cost

(***************************************************************************)
(* Requests in flight.                                                     *)
(***************************************************************************)
Blank ==
    [kind |-> "-", pc |-> "-", who |-> "-", oid |-> 0, mid |-> "-", iid |-> 0,
     arg |-> 0, txt |-> <<>>, snap |-> <<>>]

\* the requests in flight
InFlight == BagToSet(reqs)

\* a request arrives (one more worker is busy) and has run its first statement
Start(rq) ==
    /\ BagCardinality(reqs) < MaxInFlight
    /\ reqs' = reqs (+) SetToBag({rq})

\* request rq has run its next statement and goes on as rq2
Step(rq, rq2) == reqs' = (reqs (-) SetToBag({rq})) (+) SetToBag({rq2})

\* request rq has sent its response
Finish(rq) == reqs' = reqs (-) SetToBag({rq})

At(rq, k, p) == rq \in InFlight /\ rq.kind = k /\ rq.pc = p

\* no page of delivery_orders_list has been rendered yet
NoPage ==
    [who |-> NoContractor, status_queried |-> "", asked |-> <<>>,
     max_distance |-> NULL, orders |-> {}]

\* no request has been answered yet
NoResponse == [who |-> NoContractor, view |-> "", id |-> 0, outcome |-> ""]

Init ==
    /\ orders = <<>>
    /\ rejected = {}
    /\ items = {}
    /\ item_seq = 0
    /\ payments = {}
    /\ price = [m \in MenuItems \cup OtherMenu |-> IF m = "m1" THEN 500 ELSE 350]
    /\ cust_loc = [c \in Customers |-> 2]
    /\ del_loc = [d \in Contractors |-> IF d = "d1" THEN 0 ELSE 1]
    /\ cust_address = [c \in Customers |-> "a2"]
    /\ del_address = [d \in Contractors |-> IF d = "d1" THEN "a0" ELSE "a1"]
    /\ geocoded = <<>>
    /\ now = 1
    /\ reqs = EmptyBag
    /\ accept_ok = {}
    /\ shown = NoPage
    /\ place_failed = <<>>
    /\ response = NoResponse

\* requests in flight of the given kinds
Pending(kinds) ==
    BagCardinality([rq \in {x \in InFlight : x.kind \in kinds} |-> reqs[rq]])

(***************************************************************************)
(* CreateOrderItemView.form_valid: Order.objects.get_or_create, then the   *)
(* INSERT of the OrderItem.  get_or_create is a SELECT and, when it finds  *)
(* no row, an INSERT; Order has no unique constraint on                    *)
(* (user, restaurant, status).                                             *)
(***************************************************************************)
\* the rows get_or_create's SELECT matches
CartOrders(c, r) ==
    {o \in DOMAIN orders : /\ orders[o].restaurant = r
                           /\ orders[o].user = c
                           /\ orders[o].status = NOT_PLACED_YET}

\* CreateOrderItemView.form_valid with a form that accepts any quantity
CreateOrderItemView_get_within_any_quantity(cap, c, m, q) ==
    /\ item_seq + Pending({"add"}) < MaxItemId
    /\ LET found == CartOrders(c, MenuRestaurant(m))
       IN  /\ Cardinality(found) <= 1
           /\ found = {} =>
                  Cardinality(DOMAIN orders)
                      + BagCardinality([rq \in {x \in InFlight : x.pc = "create"} |-> reqs[rq]]) < cap
           /\ Start([Blank EXCEPT !.kind = "add", !.who = c, !.mid = m, !.arg = q,
                          !.pc = IF found = {} THEN "create" ELSE "insert",
                          !.oid = IF found = {} THEN 0 ELSE CHOOSE o \in found : TRUE])
    /\ UNCHANGED <<db, geo, now, accept_ok, shown, place_failed, response>>

\* POST with a valid form (quantity >= 1): the SELECT of get_or_create.
\* More than one matching row raises MultipleObjectsReturned (no change).
\* cap bounds the Order rows ever created.
CreateOrderItemView_get_within(cap, c, m, q) ==
    /\ q >= 1
    /\ item_seq + Pending({"add"}) < MaxItemId
    /\ LET found == CartOrders(c, MenuRestaurant(m))
       IN  /\ Cardinality(found) <= 1
           /\ found = {} =>
                  Cardinality(DOMAIN orders)
                      + BagCardinality([rq \in {x \in InFlight : x.pc = "create"} |-> reqs[rq]]) < cap
           /\ Start([Blank EXCEPT !.kind = "add", !.who = c, !.mid = m, !.arg = q,
                          !.pc = IF found = {} THEN "create" ELSE "insert",
                          !.oid = IF found = {} THEN 0 ELSE CHOOSE o \in found : TRUE])
    /\ UNCHANGED <<db, geo, now, accept_ok, shown, place_failed, response>>

CreateOrderItemView_get(c, m, q) == CreateOrderItemView_get_within(MaxOrders, c, m, q)

\* get_or_create found no row: INSERT a new Order
CreateOrderItemView_create(rq) ==
    /\ At(rq, "add", "create")
    /\ LET o == Cardinality(DOMAIN orders) + 1
       IN  /\ orders' = [x \in DOMAIN orders \cup {o} |->
                            IF x = o THEN NewOrder(rq.who, MenuRestaurant(rq.mid))
                            ELSE orders[x]]
           /\ Step(rq, [rq EXCEPT !.pc = "insert", !.oid = o])
    /\ UNCHANGED <<rejected, items, item_seq, payments, price, geo, now, accept_ok, shown, place_failed, response>>

\* the INSERT of the OrderItem on a table without the unique constraint
CreateOrderItemView_insert_unconstrained(rq) ==
    /\ At(rq, "add", "insert")
    /\ items' = items \cup {[id |-> item_seq + 1, order |-> rq.oid,
                             menu_item |-> rq.mid, quantity |-> rq.arg]}
    /\ item_seq' = item_seq + 1
    /\ Finish(rq)
    /\ UNCHANGED <<orders, rejected, payments, price, geo, now, accept_ok, shown, place_failed, response>>

\* obj.save(): INSERT the OrderItem; the unique constraint
\* menu_item_can_only_appear_once_in_order raises IntegrityError
CreateOrderItemView_insert(rq) ==
    /\ At(rq, "add", "insert")
    /\ IF \E i \in items : i.order = rq.oid /\ i.menu_item = rq.mid
       THEN UNCHANGED <<items, item_seq>>
       ELSE /\ items' = items \cup {[id |-> item_seq + 1, order |-> rq.oid,
                                     menu_item |-> rq.mid, quantity |-> rq.arg]}
            /\ item_seq' = item_seq + 1
    /\ Finish(rq)
    /\ UNCHANGED <<orders, rejected, payments, price, geo, now, accept_ok, shown, place_failed, response>>

(***************************************************************************)
(* EditOrderItemView: UpdateView.post reads the line through get_queryset  *)
(* (own order, still not placed); form_valid deletes it on quantity 0      *)
(* (after reading it again) and saves the new quantity otherwise.          *)
(***************************************************************************)
\* get_queryset without order__user=self.request.user
EditableItems_of_anybody(c) ==
    {i \in items : orders[i.order].status = NOT_PLACED_YET}

\* EditOrderItemView.get_queryset
EditableItems(c) ==
    {i \in items : /\ orders[i.order].user = c
                   /\ orders[i.order].status = NOT_PLACED_YET}

\* post(): self.object = self.get_object(); the form field of the
\* PositiveIntegerField quantity is valid from 0 upwards
EditOrderItemView_get(c, i, q) ==
    /\ q >= 0
    /\ i \in EditableItems(c)
    /\ Start([Blank EXCEPT !.kind = "edit", !.who = c, !.iid = i.id, !.arg = q,
                   !.snap = <<i>>, !.pc = IF q = 0 THEN "reget" ELSE "save"])
    /\ UNCHANGED <<db, geo, now, accept_ok, shown, place_failed, response>>

\* super().form_valid(form): form.save() writes the row by primary key (an
\* UPDATE; when no row has that key any more, Model.save() INSERTs it)
EditOrderItemView_save(rq) ==
    /\ At(rq, "edit", "save")
    /\ LET row == [rq.snap[1] EXCEPT !.quantity = rq.arg]
           old == {i \in items : i.id = row.id}
       IN  IF old = {} /\ \E i \in items : i.order = row.order /\ i.menu_item = row.menu_item
           THEN UNCHANGED items
           ELSE items' = (items \ old) \cup {row}
    /\ Finish(rq)
    /\ UNCHANGED <<orders, rejected, item_seq, payments, price, geo, now, accept_ok, shown, place_failed, response>>

\* quantity == 0: self.object = self.get_object() once more (404 when the
\* line is gone or its order is no longer the customer's unplaced one)
EditOrderItemView_reget(rq) ==
    /\ At(rq, "edit", "reget")
    /\ IF \E i \in EditableItems(rq.who) : i.id = rq.iid
       THEN Step(rq, [rq EXCEPT !.pc = "delete",
                           !.snap = <<CHOOSE i \in items : i.id = rq.iid>>])
       ELSE Finish(rq)
    /\ UNCHANGED <<db, geo, now, accept_ok, shown, place_failed, response>>

\* quantity 0 stored on the line instead of deleting it
EditOrderItemView_delete_keeps_row(rq) ==
    /\ At(rq, "edit", "delete")
    /\ items' = {IF i.id = rq.iid THEN [i EXCEPT !.quantity = 0] ELSE i : i \in items}
    /\ Finish(rq)
    /\ UNCHANGED <<orders, rejected, item_seq, payments, price, geo, now, accept_ok, shown, place_failed, response>>

\* self.object.delete()
EditOrderItemView_delete(rq) ==
    /\ At(rq, "edit", "delete")
    /\ items' = {i \in items : i.id # rq.iid}
    /\ Finish(rq)
    /\ UNCHANGED <<orders, rejected, item_seq, payments, price, geo, now, accept_ok, shown, place_failed, response>>

(***************************************************************************)
(* EditMenuItemView: the restaurant changes the price of one of its items. *)
(***************************************************************************)
EditMenuItemView_save(r, m, p) ==
    /\ MenuRestaurant(m) = r
    /\ price' = [price EXCEPT ![m] = p]
    /\ UNCHANGED <<orders, rejected, items, item_seq, payments, geo, now, reqs, accept_ok, shown, place_failed, response>>

(***************************************************************************)
(* PlaceOrderView: dispatch, then form_valid in four statements.           *)
(***************************************************************************)
\* the lookup of PlaceOrderView without user=self.request.user
PlaceOrderView_get_any_owner(c, o) ==
    /\ cust_address[c] # ""
    /\ o \in DOMAIN orders
    /\ orders[o].status = NOT_PLACED_YET
    /\ now + Pending({"place", "delivered"}) <= MaxClock
    /\ Start([Blank EXCEPT !.kind = "place", !.who = c, !.oid = o, !.pc = "calc",
                   !.snap = <<orders[o]>>])
    /\ UNCHANGED <<db, geo, now, accept_ok, shown, place_failed, response>>

\* dispatch (user.customer_info.location) and Order.objects.get(user, pk, status)
PlaceOrderView_get(c, o) ==
    /\ cust_address[c] # ""
    /\ o \in DOMAIN orders
    /\ orders[o].user = c
    /\ orders[o].status = NOT_PLACED_YET
    /\ now + Pending({"place", "delivered"}) <= MaxClock
    /\ Start([Blank EXCEPT !.kind = "place", !.who = c, !.oid = o, !.pc = "calc",
                   !.snap = <<orders[o]>>])
    /\ UNCHANGED <<db, geo, now, accept_ok, shown, place_failed, response>>

\* the same POST when Order.objects.get finds no row (no such order, another
\* customer's order, or an order that is no longer NOT_PLACED_YET): the
\* request ends in Order.DoesNotExist
PlaceOrderView_get_fails(c, o) ==
    /\ cust_address[c] # ""
    /\ ~(o \in DOMAIN orders /\ orders[o].user = c /\ orders[o].status = NOT_PLACED_YET)
    /\ place_failed' = <<c, o>>
    /\ response' = [who |-> c, view |-> "PlaceOrderView", id |-> o,
                    outcome |-> "DoesNotExist"]
    /\ UNCHANGED <<db, geo, now, reqs, accept_ok, shown>>

\* obj.amount_paid = order.total_cost = order.calc_total_cost()
PlaceOrderView_calc(rq) ==
    /\ At(rq, "place", "calc")
    /\ Step(rq, [rq EXCEPT !.pc = "pay",
                      !.arg = calc_total_cost(rq.snap[1], rq.oid)])
    /\ UNCHANGED <<db, geo, now, accept_ok, shown, place_failed, response>>

\* obj.save(): INSERT the Payment; Payment.order is one-to-one, so a second
\* Payment of the order raises IntegrityError and the request ends
PlaceOrderView_pay(rq) ==
    /\ At(rq, "place", "pay")
    /\ IF \E p \in payments : p.order = rq.oid
       THEN /\ Finish(rq)
            /\ UNCHANGED payments
       ELSE /\ payments' = payments \cup {[order |-> rq.oid, user |-> rq.who,
                                           amount_paid |-> rq.arg]}
            /\ Step(rq, [rq EXCEPT !.pc = "save"])
    /\ UNCHANGED <<orders, rejected, items, item_seq, price, geo, now, accept_ok, shown, place_failed, response>>

\* PlaceOrderView.form_valid saving the status and the date but not the total
PlaceOrderView_save_without_total(rq) ==
    /\ At(rq, "place", "save")
    /\ orders' = [orders EXCEPT ![rq.oid] =
                     [rq.snap[1] EXCEPT !.status = PLACED, !.date_placed = now]]
    /\ now' = now + 1
    /\ Finish(rq)
    /\ UNCHANGED <<rejected, items, item_seq, payments, price, geo, accept_ok, shown, place_failed, response>>

\* order.status = PLACED; order.date_placed = datetime_now(); order.save()
PlaceOrderView_save(rq) ==
    /\ At(rq, "place", "save")
    /\ orders' = [orders EXCEPT ![rq.oid] =
                     [rq.snap[1] EXCEPT !.total_cost = rq.arg,
                                             !.status = PLACED,
                                             !.date_placed = now]]
    /\ now' = now + 1
    /\ Finish(rq)
    /\ UNCHANGED <<rejected, items, item_seq, payments, price, geo, accept_ok, shown, place_failed, response>>

(***************************************************************************)
(* restaurant_orders_list, action mark_as_ready_for_pickup.                *)
(***************************************************************************)
\* Order.objects.get(pk, restaurant, status=PLACED)
restaurant_orders_list_get(r, o) ==
    /\ o \in DOMAIN orders
    /\ orders[o].restaurant = r
    /\ orders[o].status = PLACED
    /\ Start([Blank EXCEPT !.kind = "ready", !.who = r, !.oid = o, !.pc = "save",
                   !.snap = <<orders[o]>>])
    /\ UNCHANGED <<db, geo, now, accept_ok, shown, place_failed, response>>

\* order.status = READY_FOR_PICKUP; order.save()
restaurant_orders_list_save(rq) ==
    /\ At(rq, "ready", "save")
    /\ orders' = [orders EXCEPT ![rq.oid] =
                     [rq.snap[1] EXCEPT !.status = READY_FOR_PICKUP]]
    /\ Finish(rq)
    /\ UNCHANGED <<rejected, items, item_seq, payments, price, geo, now, accept_ok, shown, place_failed, response>>

(***************************************************************************)
(* delivery_orders_list, the POST actions of a delivery contractor.        *)
(***************************************************************************)
\* accept looking the order up by pk only
delivery_orders_list_accept_get_any_status(d, o) ==
    /\ o \in DOMAIN orders
    /\ Start([Blank EXCEPT !.kind = "accept", !.who = d, !.oid = o, !.pc = "save",
                   !.snap = <<orders[o]>>])
    /\ UNCHANGED <<db, geo, now, accept_ok, shown, place_failed, response>>

\* accept: Order.objects.get(pk, status=READY_FOR_PICKUP, accepted_by__isnull=True)
delivery_orders_list_accept_get(d, o) ==
    /\ o \in DOMAIN orders
    /\ orders[o].status = READY_FOR_PICKUP
    /\ orders[o].accepted_by = NoContractor
    /\ Start([Blank EXCEPT !.kind = "accept", !.who = d, !.oid = o, !.pc = "save",
                   !.snap = <<orders[o]>>])
    /\ UNCHANGED <<db, geo, now, accept_ok, shown, place_failed, response>>

\* accept that sets accepted_by and leaves the status as it was read
delivery_orders_list_accept_save_keeps_status(rq) ==
    /\ At(rq, "accept", "save")
    /\ orders' = [orders EXCEPT ![rq.oid] = [rq.snap[1] EXCEPT !.accepted_by = rq.who]]
    /\ accept_ok' = accept_ok \cup {<<rq.who, rq.oid>>}
    /\ Finish(rq)
    /\ UNCHANGED <<rejected, items, item_seq, payments, price, geo, now, shown, place_failed, response>>

\* order.accepted_by = user; order.status = IN_TRANSIT; order.save(); the
\* view then renders the queue (200)
delivery_orders_list_accept_save(rq) ==
    /\ At(rq, "accept", "save")
    /\ orders' = [orders EXCEPT ![rq.oid] =
                     [rq.snap[1] EXCEPT !.accepted_by = rq.who,
                                             !.status = IN_TRANSIT]]
    /\ accept_ok' = accept_ok \cup {<<rq.who, rq.oid>>}
    /\ Finish(rq)
    /\ UNCHANGED <<rejected, items, item_seq, payments, price, geo, now, shown, place_failed, response>>

\* reject: Order.objects.exclude(accepted_by=user).get(pk=order_id)
delivery_orders_list_reject_get(d, o) ==
    /\ o \in DOMAIN orders
    /\ orders[o].accepted_by # d
    /\ Start([Blank EXCEPT !.kind = "reject", !.who = d, !.oid = o, !.pc = "add"])
    /\ UNCHANGED <<db, geo, now, accept_ok, shown, place_failed, response>>

\* reject recording the rejection for the order as a whole, not per contractor
delivery_orders_list_reject_add_for_all(rq) ==
    /\ At(rq, "reject", "add")
    /\ rejected' = rejected \cup {<<d, rq.oid>> : d \in Contractors}
    /\ Finish(rq)
    /\ UNCHANGED <<orders, items, item_seq, payments, price, geo, now, accept_ok, shown, place_failed, response>>

\* order.rejected_by.add(user): a row of the m2m table, the Order row is not saved
delivery_orders_list_reject_add(rq) ==
    /\ At(rq, "reject", "add")
    /\ rejected' = rejected \cup {<<rq.who, rq.oid>>}
    /\ Finish(rq)
    /\ UNCHANGED <<orders, items, item_seq, payments, price, geo, now, accept_ok, shown, place_failed, response>>

\* mark_as_delivered: Order.objects.get(pk, status=IN_TRANSIT)
delivery_orders_list_delivered_get(d, o) ==
    /\ o \in DOMAIN orders
    /\ orders[o].status = IN_TRANSIT
    /\ now + Pending({"place", "delivered"}) <= MaxClock
    /\ Start([Blank EXCEPT !.kind = "delivered", !.who = d, !.oid = o, !.pc = "save",
                   !.snap = <<orders[o]>>])
    /\ UNCHANGED <<db, geo, now, accept_ok, shown, place_failed, response>>

\* order.status = DELIVERED; order.date_delivered = datetime_now(); order.save()
delivery_orders_list_delivered_save(rq) ==
    /\ At(rq, "delivered", "save")
    /\ orders' = [orders EXCEPT ![rq.oid] =
                     [rq.snap[1] EXCEPT !.status = DELIVERED,
                                             !.date_delivered = now]]
    /\ now' = now + 1
    /\ Finish(rq)
    /\ UNCHANGED <<rejected, items, item_seq, payments, price, geo, accept_ok, shown, place_failed, response>>

\* the decimal digit a character stands for, -1 for any other character
DigitOf(ch) ==
    CASE ch = "0" -> 0 [] ch = "1" -> 1 [] ch = "2" -> 2 [] ch = "3" -> 3
      [] ch = "4" -> 4 [] ch = "5" -> 5 [] ch = "6" -> 6 [] ch = "7" -> 7
      [] ch = "8" -> 8 [] ch = "9" -> 9 [] OTHER -> -1

RECURSIVE DigitsValue(_)
\* the value of a string of decimal digits
DigitsValue(t) ==
    IF Len(t) = 0 THEN 0
    ELSE 10 * DigitsValue(SubSeq(t, 1, Len(t) - 1)) + DigitOf(t[Len(t)])

\* int(text) of Python on a string given as its characters: <<n>>, or <<>>
\* where int() raises ValueError (no digits, or a character that is no digit)
int_parse(t) ==
    LET neg  == Len(t) > 0 /\ t[1] = "-"
        body == IF Len(t) > 0 /\ t[1] \in {"-", "+"} THEN Tail(t) ELSE t
    IN  IF Len(body) = 0 \/ \E k \in 1..Len(body) : DigitOf(body[k]) < 0
        THEN <<>>
        ELSE <<IF neg THEN 0 - DigitsValue(body) ELSE DigitsValue(body)>>

\* what a contractor may POST as minutes_away ("" when the field is missing)
MinutesInputs == {<<"7">>, <<"7", "m">>, <<>>}

\* set_minutes_away: Order.objects.get(pk, status=IN_TRANSIT)
delivery_orders_list_minutes_get(d, o, t) ==
    /\ o \in DOMAIN orders
    /\ orders[o].status = IN_TRANSIT
    /\ Start([Blank EXCEPT !.kind = "minutes", !.who = d, !.oid = o, !.pc = "save",
                   !.txt = t, !.snap = <<orders[o]>>])
    /\ UNCHANGED <<db, geo, now, accept_ok, shown, place_failed, response>>

\* try: order.minutes_away = int(...) except ValueError: ... = None; order.save()
delivery_orders_list_minutes_save(rq) ==
    /\ At(rq, "minutes", "save")
    /\ LET v == int_parse(rq.txt)
       IN  orders' = [orders EXCEPT ![rq.oid] =
                         [rq.snap[1] EXCEPT
                              !.minutes_away = IF v = <<>> THEN NULL ELSE v[1]]]
    /\ Finish(rq)
    /\ UNCHANGED <<rejected, items, item_seq, payments, price, geo, now, accept_ok, shown, place_failed, response>>

(***************************************************************************)
(* delivery_orders_list, the queues it renders.                            *)
(***************************************************************************)
\* geo.get_distance_in_miles between two positions on the equator, in
\* thousandths of a mile: 0.05 degrees of longitude are 3.459 miles
get_distance_in_miles(a, b) == 3459 * (IF a >= b THEN a - b ELSE b - a)

\* status_queried == "accepted"
AcceptedQueue(d) ==
    {o \in DOMAIN orders : orders[o].accepted_by = d /\ orders[o].status = IN_TRANSIT}

\* the unassigned queue without .exclude(id__in=user.rejected_orders.all())
UnassignedQueue_without_exclude(d, max_distance) ==
    {o \in DOMAIN orders :
        /\ orders[o].status = READY_FOR_PICKUP
        /\ get_distance_in_miles(RestaurantLoc(orders[o].restaurant), del_loc[d])
               <= 1000 * max_distance
        /\ get_distance_in_miles(cust_loc[orders[o].user], del_loc[d])
               <= 1000 * max_distance}

\* the unassigned queue with "or" between the two distance tests
UnassignedQueue_either_leg(d, max_distance) ==
    {o \in DOMAIN orders :
        /\ orders[o].status = READY_FOR_PICKUP
        /\ <<d, o>> \notin rejected
        /\ \/ get_distance_in_miles(RestaurantLoc(orders[o].restaurant), del_loc[d])
                  <= 1000 * max_distance
           \/ get_distance_in_miles(cust_loc[orders[o].user], del_loc[d])
                  <= 1000 * max_distance}

\* any other status_queried: READY_FOR_PICKUP, not rejected by the contractor,
\* both distances within max_distance miles
UnassignedQueue(d, max_distance) ==
    {o \in DOMAIN orders :
        /\ orders[o].status = READY_FOR_PICKUP
        /\ <<d, o>> \notin rejected
        /\ get_distance_in_miles(RestaurantLoc(orders[o].restaurant), del_loc[d])
               <= 1000 * max_distance
        /\ get_distance_in_miles(cust_loc[orders[o].user], del_loc[d])
               <= 1000 * max_distance}

\* the fallback of max_distance when the form is not valid
DefaultMaxDistance == 5

\* IntegerField.to_python drops a trailing "." followed only by zeros
\* (re_decimal) before it calls int()
strip_decimal(t) ==
    IF \E i \in 1..Len(t) : t[i] = "." /\ \A j \in (i + 1)..Len(t) : t[j] = "0"
    THEN LET i == CHOOSE i \in 1..Len(t) :
                      t[i] = "." /\ \A j \in (i + 1)..Len(t) : t[j] = "0"
         IN  SubSeq(t, 1, i - 1)
    ELSE t

\* IntegerField(min_value=1) that accepts any integer
IntegerField_clean_without_min_value(t) ==
    IF Len(t) = 0 THEN <<>> ELSE int_parse(strip_decimal(t))

\* OrdersWithinDistanceForm: the cleaned max_distance as <<n>>, or <<>> when
\* the form is not valid (empty text, no integer, or an integer below 1)
IntegerField_clean(t) ==
    LET v == IF Len(t) = 0 THEN <<>> ELSE int_parse(strip_decimal(t))
    IN  IF v # <<>> /\ v[1] >= 1 THEN v ELSE <<>>

\* the bound the page filters with; md is <<>> when the request carries no
\* max_distance and <<text>> when it does: .get("max_distance", 5) hands the
\* form the number 5, which the field reads as the text "5"
max_distance_of(md) ==
    LET data    == IF md = <<>> THEN <<"5">> ELSE md[1]
        cleaned == IntegerField_clean(data)
    IN  IF cleaned # <<>> THEN cleaned[1] ELSE DefaultMaxDistance

\* what a contractor may send as max_distance: nothing, "", "x", "0", "-3",
\* "3", "7", "7.0"
DistanceInputs ==
    {<<>>, <<<<>>>>, <<<<"x">>>>, <<<<"0">>>>, <<<<"-", "3">>>>, <<<<"3">>>>,
     <<<<"7">>>>, <<<<"7", ".", "0">>>>}

\* the accepted queue cut down to max_distance like the unassigned one
render_with_distance_filter_everywhere(d, status_queried, md) ==
    /\ shown' = [who |-> d, status_queried |-> status_queried, asked |-> md,
                 max_distance |-> max_distance_of(md),
                 orders |-> IF status_queried = "accepted"
                            THEN {o \in AcceptedQueue(d) :
                                     get_distance_in_miles(cust_loc[orders[o].user],
                                                           del_loc[d])
                                         <= 1000 * max_distance_of(md)}
                            ELSE UnassignedQueue(d, max_distance_of(md))]
    /\ UNCHANGED <<db, geo, now, reqs, accept_ok, place_failed, response>>

\* GET delivery_orders_list?status=..&max_distance=..: one SELECT, evaluated
\* when the template iterates the lazy map/filter; the accepted page is
\* returned before the form is built and carries no max_distance
delivery_orders_list_render(d, status_queried, md) ==
    /\ shown' = IF status_queried = "accepted"
                THEN [who |-> d, status_queried |-> status_queried, asked |-> md,
                      max_distance |-> NULL, orders |-> AcceptedQueue(d)]
                ELSE [who |-> d, status_queried |-> status_queried, asked |-> md,
                      max_distance |-> max_distance_of(md),
                      orders |-> UnassignedQueue(d, max_distance_of(md))]
    /\ UNCHANGED <<db, geo, now, reqs, accept_ok, place_failed, response>>

(***************************************************************************)
(* Who may call a view: check_authorization behind deny_if_not_target and  *)
(* the role mixins.                                                        *)
(***************************************************************************)
\* request.user of a request without a session (AnonymousUser)
Anonymous == "anon"

Principals == Customers \cup Restaurants \cup Contractors \cup {Anonymous}

is_authenticated(user) == user # Anonymous

\* User.user_type, set by the registration form of each kind of account
user_type(user) ==
    CASE user \in Customers   -> "Reg"
      [] user \in Restaurants -> "Res"
      [] user \in Contractors -> "Del"
      [] OTHER                -> "-"

\* check_authorization that lets every authenticated user in
check_authorization_any_type(user, target) ==
    (target = "None" /\ ~is_authenticated(user)) \/ is_authenticated(user)

check_authorization(user, target) ==
    \/ target = "None" /\ ~is_authenticated(user)
    \/ is_authenticated(user) /\ target = user_type(user)

\* the views on orders and the target each of them is declared with
OrderViews ==
    {"CreateOrderItemView", "EditOrderItemView", "ManageOrder", "PlaceOrderView",
     "restaurant_orders_list", "delivery_orders_list"}

ViewTarget(view) ==
    CASE view = "restaurant_orders_list" -> "Res"
      [] view = "delivery_orders_list"   -> "Del"
      [] OTHER                           -> "Reg"

\* a request by a principal the view does not admit: PermissionDenied.
\* PlaceOrderView.dispatch reads user.user_type before the mixin runs, which
\* AnonymousUser does not have (AttributeError).
deny_if_not_target(user, view) ==
    /\ ~check_authorization(user, ViewTarget(view))
    /\ response' = [who |-> user, view |-> view, id |-> 0,
                    outcome |-> IF view = "PlaceOrderView" /\ ~is_authenticated(user)
                                THEN "AttributeError" ELSE "PermissionDenied"]
    /\ UNCHANGED <<db, geo, now, reqs, accept_ok, shown, place_failed>>

(***************************************************************************)
(* Lookups by id that answer not-found: what each view answers for an id,  *)
(* as a function of the tables.                                            *)
(***************************************************************************)
\* ManageOrder answering 403 for an order of somebody else
ManageOrder_outcome_forbidden(tbl, c, o) ==
    IF o \notin DOMAIN tbl THEN "Http404"
    ELSE IF tbl[o].user # c THEN "PermissionDenied" ELSE "200"

\* ManageOrder: DetailView over get_queryset().filter(user=request.user)
ManageOrder_outcome(tbl, c, o) ==
    IF o \in DOMAIN tbl /\ tbl[o].user = c THEN "200" ELSE "Http404"

\* EditOrderItemView.get_object over get_queryset (own order, not placed)
EditOrderItemView_outcome(tbl, itms, c, iid) ==
    IF \E i \in itms : /\ i.id = iid
                       /\ tbl[i.order].user = c
                       /\ tbl[i.order].status = NOT_PLACED_YET
    THEN "found" ELSE "Http404"

\* PlaceOrderView: Order.objects.get(user, pk, status=NOT_PLACED_YET)
PlaceOrderView_outcome(tbl, c, o) ==
    IF o \in DOMAIN tbl /\ tbl[o].user = c /\ tbl[o].status = NOT_PLACED_YET
    THEN "found" ELSE "DoesNotExist"

\* restaurant_orders_list: Order.objects.get(pk, restaurant, status=PLACED)
restaurant_orders_list_outcome(tbl, r, o) ==
    IF o \in DOMAIN tbl /\ tbl[o].restaurant = r /\ tbl[o].status = PLACED
    THEN "found" ELSE "DoesNotExist"

\* GET of ManageOrder
ManageOrder_get(c, o) ==
    /\ response' = [who |-> c, view |-> "ManageOrder", id |-> o,
                    outcome |-> ManageOrder_outcome(orders, c, o)]
    /\ UNCHANGED <<db, geo, now, reqs, accept_ok, shown, place_failed>>

\* POST to EditOrderItemView for a line get_object does not find
EditOrderItemView_get_fails(c, iid) ==
    /\ EditOrderItemView_outcome(orders, items, c, iid) = "Http404"
    /\ response' = [who |-> c, view |-> "EditOrderItemView", id |-> iid,
                    outcome |-> "Http404"]
    /\ UNCHANGED <<db, geo, now, reqs, accept_ok, shown, place_failed>>

\* mark_as_ready_for_pickup for an order the lookup does not find
restaurant_orders_list_get_fails(r, o) ==
    /\ restaurant_orders_list_outcome(orders, r, o) = "DoesNotExist"
    /\ response' = [who |-> r, view |-> "restaurant_orders_list", id |-> o,
                    outcome |-> "DoesNotExist"]
    /\ UNCHANGED <<db, geo, now, reqs, accept_ok, shown, place_failed>>

(***************************************************************************)
(* The system: any principal may send any request at any time.  cust,      *)
(* menu, qty, who and minutes are the customers who order, the menu items  *)
(* they order, the quantities they enter, the contractors at work and the  *)
(* minutes_away texts they send.                                           *)
(***************************************************************************)
System(cust, menu, qty, who, minutes) ==
    \/ \E c \in cust, m \in menu, q \in qty : CreateOrderItemView_get(c, m, q)
    \/ \E rq \in InFlight : CreateOrderItemView_create(rq)
    \/ \E rq \in InFlight : CreateOrderItemView_insert(rq)
    \/ \E c \in cust, i \in items, q \in qty : EditOrderItemView_get(c, i, q)
    \/ \E rq \in InFlight : EditOrderItemView_save(rq)
    \/ \E rq \in InFlight : EditOrderItemView_reget(rq)
    \/ \E rq \in InFlight : EditOrderItemView_delete(rq)
    \/ \E r \in Restaurants, m \in menu, p \in PriceChoices :
           EditMenuItemView_save(r, m, p)
    \/ \E c \in cust, o \in OrderIds : PlaceOrderView_get(c, o)
    \/ \E rq \in InFlight : PlaceOrderView_calc(rq)
    \/ \E rq \in InFlight : PlaceOrderView_pay(rq)
    \/ \E rq \in InFlight : PlaceOrderView_save(rq)
    \/ \E r \in Restaurants, o \in OrderIds : restaurant_orders_list_get(r, o)
    \/ \E rq \in InFlight : restaurant_orders_list_save(rq)
    \/ \E d \in who, o \in OrderIds : delivery_orders_list_accept_get(d, o)
    \/ \E rq \in InFlight : delivery_orders_list_accept_save(rq)
    \/ \E d \in who, o \in OrderIds : delivery_orders_list_reject_get(d, o)
    \/ \E rq \in InFlight : delivery_orders_list_reject_add(rq)
    \/ \E d \in who, o \in OrderIds : delivery_orders_list_delivered_get(d, o)
    \/ \E rq \in InFlight : delivery_orders_list_delivered_save(rq)
    \/ \E d \in who, o \in OrderIds, t \in minutes :
           delivery_orders_list_minutes_get(d, o, t)
    \/ \E rq \in InFlight : delivery_orders_list_minutes_save(rq)

\* the delivery side in full (both contractors, every minutes_away text) over
\* a cart of one menu item
Next == System({"u1"}, {"m1"}, 0..1, Contractors, MinutesInputs)

Spec == Init /\ [][Next]_vars

\* the cart in full (both menu items, every quantity entered, from -1 up)
\* with one contractor
NextCart == System({"u1"}, MenuItems, (0 - 1)..MaxQty, {"d1"}, {<<"7">>})

SpecCart == Init /\ [][NextCart]_vars

\* the pages of delivery_orders_list: contractors read their queues, with
\* every max_distance input, while orders are filled, placed, made ready,
\* accepted, rejected and delivered
NextQueue ==
    \/ \E c \in {"u1"} : CreateOrderItemView_get(c, "m1", 1)
    \/ \E rq \in InFlight : CreateOrderItemView_create(rq)
    \/ \E rq \in InFlight : CreateOrderItemView_insert(rq)
    \/ \E c \in {"u1"}, o \in OrderIds : PlaceOrderView_get(c, o)
    \/ \E rq \in InFlight : PlaceOrderView_calc(rq)
    \/ \E rq \in InFlight : PlaceOrderView_pay(rq)
    \/ \E rq \in InFlight : PlaceOrderView_save(rq)
    \/ \E r \in Restaurants, o \in OrderIds : restaurant_orders_list_get(r, o)
    \/ \E rq \in InFlight : restaurant_orders_list_save(rq)
    \/ \E d \in Contractors, o \in OrderIds : delivery_orders_list_accept_get(d, o)
    \/ \E rq \in InFlight : delivery_orders_list_accept_save(rq)
    \/ \E d \in Contractors, o \in OrderIds : delivery_orders_list_reject_get(d, o)
    \/ \E rq \in InFlight : delivery_orders_list_reject_add(rq)
    \/ \E d \in Contractors, o \in OrderIds : delivery_orders_list_delivered_get(d, o)
    \/ \E rq \in InFlight : delivery_orders_list_delivered_save(rq)
    \/ \E d \in Contractors, md \in DistanceInputs :
           delivery_orders_list_render(d, "", md)
    \/ \E d \in Contractors : delivery_orders_list_render(d, "accepted", <<>>)

SpecQueue == Init /\ [][NextQueue]_vars

\* the customers' side: two customers fill, edit and pay carts of one menu
\* item, each of them free to send two requests at once and to submit
\* payment for any order id
NextOrdering ==
    \/ \E c \in Customers, q \in 1..MaxQty :
           CreateOrderItemView_get_within(MaxCarts, c, "m1", q)
    \/ \E rq \in InFlight : CreateOrderItemView_create(rq)
    \/ \E rq \in InFlight : CreateOrderItemView_insert(rq)
    \/ \E c \in Customers, i \in items, q \in 0..MaxQty : EditOrderItemView_get(c, i, q)
    \/ \E rq \in InFlight : EditOrderItemView_save(rq)
    \/ \E rq \in InFlight : EditOrderItemView_reget(rq)
    \/ \E rq \in InFlight : EditOrderItemView_delete(rq)
    \/ \E c \in Customers, o \in 1..MaxCarts : PlaceOrderView_get(c, o)
    \/ \E c \in Customers, o \in 1..MaxCarts : PlaceOrderView_get_fails(c, o)
    \/ \E rq \in InFlight : PlaceOrderView_calc(rq)
    \/ \E rq \in InFlight : PlaceOrderView_pay(rq)
    \/ \E rq \in InFlight : PlaceOrderView_save(rq)

SpecOrdering == Init /\ [][NextOrdering]_vars

\* no request is in flight
Quiet == reqs = EmptyBag

\* the POST actions of delivery_orders_list
ContractorActions == {"accept", "reject", "mark_as_delivered", "set_minutes_away"}

\* what the lookup of a POST action of delivery_orders_list answers for an
\* order id, as a function of the Order table
delivery_orders_list_outcome(tbl, d, action, o) ==
    IF /\ o \in DOMAIN tbl
       /\ CASE action = "accept" -> /\ tbl[o].status = READY_FOR_PICKUP
                                    /\ tbl[o].accepted_by = NoContractor
            [] action = "reject" -> tbl[o].accepted_by # d
            [] OTHER             -> tbl[o].status = IN_TRANSIT
    THEN "found" ELSE "DoesNotExist"

\* a POST action whose Order.objects.get finds no row: the request ends in
\* Order.DoesNotExist before anything is written
delivery_orders_list_get_fails(d, action, o) ==
    /\ delivery_orders_list_outcome(orders, d, action, o) = "DoesNotExist"
    /\ response' = [who |-> d, view |-> "delivery_orders_list", id |-> o,
                    outcome |-> "DoesNotExist"]
    /\ UNCHANGED <<db, geo, now, reqs, accept_ok, shown, place_failed>>

\* the contractors at work, each free to send any action for any order id
\* (also one that does not exist) at any time, while one order is filled,
\* paid and made ready
NextContractor ==
    \/ \E c \in {"u1"} : Quiet /\ CreateOrderItemView_get(c, "m1", 1)
    \/ \E rq \in InFlight : CreateOrderItemView_create(rq)
    \/ \E rq \in InFlight : CreateOrderItemView_insert(rq)
    \/ \E c \in {"u1"}, o \in OrderIds : Quiet /\ PlaceOrderView_get(c, o)
    \/ \E rq \in InFlight : PlaceOrderView_calc(rq)
    \/ \E rq \in InFlight : PlaceOrderView_pay(rq)
    \/ \E rq \in InFlight : PlaceOrderView_save(rq)
    \/ \E r \in Restaurants, o \in OrderIds : Quiet /\ restaurant_orders_list_get(r, o)
    \/ \E rq \in InFlight : restaurant_orders_list_save(rq)
    \/ \E d \in Contractors, a \in ContractorActions, o \in 1..(MaxOrders + 1) :
           delivery_orders_list_get_fails(d, a, o)
    \/ \E d \in Contractors, o \in OrderIds : delivery_orders_list_accept_get(d, o)
    \/ \E rq \in InFlight : delivery_orders_list_accept_save(rq)
    \/ \E d \in Contractors, o \in OrderIds : delivery_orders_list_reject_get(d, o)
    \/ \E rq \in InFlight : delivery_orders_list_reject_add(rq)
    \/ \E d \in Contractors, o \in OrderIds : delivery_orders_list_delivered_get(d, o)
    \/ \E rq \in InFlight : delivery_orders_list_delivered_save(rq)
    \/ \E d \in Contractors, o \in OrderIds :
           delivery_orders_list_minutes_get(d, o, <<"7">>)
    \/ \E rq \in InFlight : delivery_orders_list_minutes_save(rq)

SpecContractor == Init /\ [][NextContractor]_vars

\* one order from cart to delivery with both contractors at work (accepting,
\* rejecting, reporting minutes away, marking delivered), two requests at once
NextLive ==
    \/ \E c \in {"u1"} : Quiet /\ CreateOrderItemView_get(c, "m1", 1)
    \/ \E rq \in InFlight : CreateOrderItemView_create(rq)
    \/ \E rq \in InFlight : CreateOrderItemView_insert(rq)
    \/ \E c \in {"u1"}, o \in OrderIds : Quiet /\ PlaceOrderView_get(c, o)
    \/ \E rq \in InFlight : PlaceOrderView_calc(rq)
    \/ \E rq \in InFlight : PlaceOrderView_pay(rq)
    \/ \E rq \in InFlight : PlaceOrderView_save(rq)
    \/ \E r \in Restaurants, o \in OrderIds : restaurant_orders_list_get(r, o)
    \/ \E rq \in InFlight : restaurant_orders_list_save(rq)
    \/ \E d \in Contractors, o \in OrderIds : delivery_orders_list_accept_get(d, o)
    \/ \E rq \in InFlight : delivery_orders_list_accept_save(rq)
    \/ \E d \in Contractors, o \in OrderIds : delivery_orders_list_reject_get(d, o)
    \/ \E rq \in InFlight : delivery_orders_list_reject_add(rq)
    \/ \E d \in Contractors, o \in OrderIds : delivery_orders_list_delivered_get(d, o)
    \/ \E rq \in InFlight : delivery_orders_list_delivered_save(rq)
    \/ \E d \in Contractors, o \in OrderIds :
           delivery_orders_list_minutes_get(d, o, <<"7">>)
    \/ \E rq \in InFlight : delivery_orders_list_minutes_save(rq)

\* the server answers every request it has taken (weak fairness of every
\* statement of a request in flight); the restaurant keeps marking PLACED
\* orders ready, some contractor keeps accepting READY_FOR_PICKUP orders and
\* keeps marking IN_TRANSIT orders delivered (strong fairness: such a request
\* is sent again until the server takes it)
Fairness ==
    /\ WF_vars(\E rq \in InFlight : CreateOrderItemView_create(rq))
    /\ WF_vars(\E rq \in InFlight : CreateOrderItemView_insert(rq))
    /\ WF_vars(\E rq \in InFlight : PlaceOrderView_calc(rq))
    /\ WF_vars(\E rq \in InFlight : PlaceOrderView_pay(rq))
    /\ WF_vars(\E rq \in InFlight : PlaceOrderView_save(rq))
    /\ WF_vars(\E rq \in InFlight : restaurant_orders_list_save(rq))
    /\ WF_vars(\E rq \in InFlight : delivery_orders_list_accept_save(rq))
    /\ WF_vars(\E rq \in InFlight : delivery_orders_list_reject_add(rq))
    /\ WF_vars(\E rq \in InFlight : delivery_orders_list_delivered_save(rq))
    /\ WF_vars(\E rq \in InFlight : delivery_orders_list_minutes_save(rq))
    /\ SF_vars(\E r \in Restaurants, o \in OrderIds : restaurant_orders_list_get(r, o))
    /\ SF_vars(\E d \in Contractors, o \in OrderIds : delivery_orders_list_accept_get(d, o))
    /\ SF_vars(\E d \in Contractors, o \in OrderIds :
                   delivery_orders_list_delivered_get(d, o))

SpecLive == Init /\ [][NextLive]_vars /\ Fairness

\* two customers fill and edit carts at two restaurants, each of them free
\* to send two requests at once and to edit any line
NextMenu ==
    \/ \E c \in Customers, m \in {"m1"} \cup OtherMenu :
           CreateOrderItemView_get_within(MaxCarts, c, m, 1)
    \/ \E rq \in InFlight : CreateOrderItemView_create(rq)
    \/ \E rq \in InFlight : CreateOrderItemView_insert(rq)
    \/ \E c \in Customers, i \in items, q \in 0..MaxQty : EditOrderItemView_get(c, i, q)
    \/ \E c \in Customers, iid \in 1..MaxItemId : EditOrderItemView_get_fails(c, iid)
    \/ \E rq \in InFlight : EditOrderItemView_save(rq)
    \/ \E rq \in InFlight : EditOrderItemView_reget(rq)
    \/ \E rq \in InFlight : EditOrderItemView_delete(rq)

SpecMenu == Init /\ [][NextMenu]_vars

\* access: every principal, the anonymous one included, calls every view on
\* orders with any id, one request at a time, while a cart of one menu item
\* is filled, edited, placed, made ready and delivered
NextAccess ==
    \/ \E p \in Principals, view \in OrderViews :
           Quiet /\ deny_if_not_target(p, view)
    \/ \E p \in Principals :
           /\ Quiet /\ check_authorization(p, "Reg")
           /\ CreateOrderItemView_get(p, "m1", 1)
    \/ \E rq \in InFlight : CreateOrderItemView_create(rq)
    \/ \E rq \in InFlight : CreateOrderItemView_insert(rq)
    \/ \E p \in Principals, i \in items, q \in 0..1 :
           /\ Quiet /\ check_authorization(p, "Reg")
           /\ EditOrderItemView_get(p, i, q)
    \/ \E p \in Principals, iid \in 1..MaxItemId :
           Quiet /\ check_authorization(p, "Reg") /\ EditOrderItemView_get_fails(p, iid)
    \/ \E rq \in InFlight : EditOrderItemView_save(rq)
    \/ \E rq \in InFlight : EditOrderItemView_reget(rq)
    \/ \E rq \in InFlight : EditOrderItemView_delete(rq)
    \/ \E p \in Principals, o \in 1..MaxCarts :
           Quiet /\ check_authorization(p, "Reg") /\ ManageOrder_get(p, o)
    \/ \E p \in Principals, o \in 1..MaxCarts :
           /\ Quiet /\ check_authorization(p, "Reg") /\ user_type(p) = "Reg"
           /\ PlaceOrderView_get(p, o)
    \/ \E p \in Principals, o \in 1..MaxCarts :
           /\ Quiet /\ check_authorization(p, "Reg") /\ user_type(p) = "Reg"
           /\ PlaceOrderView_get_fails(p, o)
    \/ \E rq \in InFlight : PlaceOrderView_calc(rq)
    \/ \E rq \in InFlight : PlaceOrderView_pay(rq)
    \/ \E rq \in InFlight : PlaceOrderView_save(rq)
    \/ \E p \in Principals, o \in 1..MaxCarts :
           /\ Quiet /\ check_authorization(p, "Res")
           /\ restaurant_orders_list_get(p, o)
    \/ \E p \in Principals, o \in 1..MaxCarts :
           Quiet /\ check_authorization(p, "Res") /\ restaurant_orders_list_get_fails(p, o)
    \/ \E rq \in InFlight : restaurant_orders_list_save(rq)
    \/ \E p \in Principals, o \in 1..MaxCarts :
           /\ Quiet /\ check_authorization(p, "Del")
           /\ delivery_orders_list_accept_get(p, o)
    \/ \E rq \in InFlight : delivery_orders_list_accept_save(rq)
    \/ \E p \in Principals, o \in 1..MaxCarts :
           /\ Quiet /\ check_authorization(p, "Del")
           /\ delivery_orders_list_reject_get(p, o)
    \/ \E rq \in InFlight : delivery_orders_list_reject_add(rq)
    \/ \E p \in Principals, o \in 1..MaxCarts :
           /\ Quiet /\ check_authorization(p, "Del")
           /\ delivery_orders_list_delivered_get(p, o)
    \/ \E rq \in InFlight : delivery_orders_list_delivered_save(rq)
    \/ \E p \in Principals, o \in 1..MaxCarts :
           /\ Quiet /\ check_authorization(p, "Del")
           /\ delivery_orders_list_minutes_get(p, o, <<"7">>)
    \/ \E rq \in InFlight : delivery_orders_list_minutes_save(rq)

SpecAccess == Init /\ [][NextAccess]_vars

(***************************************************************************)
(* Account details: the geocoder and the two account forms.  A form is     *)
(* handled in one step: it reads the row, asks the geocoder (no table is   *)
(* touched meanwhile) and writes address and coordinate together.          *)
(***************************************************************************)
\* the addresses Nominatim finds, with the position it gives for each
Place == [a \in {"a0", "a1", "a2"} |->
             IF a = "a0" THEN 0 ELSE IF a = "a1" THEN 1 ELSE 2]

\* geolocator.geocode(location): the Location found, None when Nominatim
\* finds nothing for the text, or a GeopyError (timeout, service unavailable)
geocode(location) ==
    (IF location \in DOMAIN Place THEN {<<"Location", Place[location]>>}
     ELSE {<<"None">>}) \cup {<<"GeopyError">>}

\* everything the geocoder may answer
GeocoderAnswers ==
    {<<"Location", Place[a]>> : a \in DOMAIN Place} \cup {<<"None">>, <<"GeopyError">>}

\* geo.get_coordinates: location.latitude of None raises AttributeError
get_coordinates(found) ==
    IF found = <<"None">> THEN <<"AttributeError">> ELSE found

\* RegularAccountDetailsForm.clean: the outcome, and the coordinate put into
\* cleaned_data (<<>>: none put there)
RegularAccountDetailsForm_clean(initial, location, found) ==
    IF location # "" /\ location # initial
    THEN LET r == get_coordinates(found)
         IN  IF r[1] = "Location" THEN [outcome |-> "valid", xy |-> <<r[2]>>]
             ELSE IF r[1] = "GeopyError"
                  THEN [outcome |-> "ValidationError", xy |-> <<>>]
                  ELSE [outcome |-> r[1], xy |-> <<>>]
    ELSE IF location = "" THEN [outcome |-> "valid", xy |-> <<NULL>>]
    ELSE [outcome |-> "valid", xy |-> <<>>]

\* DeliveryAccountDetailsForm.clean (location is a required field)
DeliveryAccountDetailsForm_clean(initial, location, found) ==
    IF location # initial
    THEN LET r == get_coordinates(found)
         IN  IF r[1] = "Location" THEN [outcome |-> "valid", xy |-> <<r[2]>>]
             ELSE IF r[1] = "GeopyError"
                  THEN [outcome |-> "ValidationError", xy |-> <<>>]
                  ELSE [outcome |-> r[1], xy |-> <<>>]
    ELSE [outcome |-> "valid", xy |-> <<>>]

\* POST to EditRegularAccountDetailsView with the (stripped) text location;
\* RegularAccountDetailsForm.save writes the coordinate when the text changed
EditRegularAccountDetailsView_post(c, location, found) ==
    /\ found \in (IF location # "" /\ location # cust_address[c]
                  THEN geocode(location) ELSE {<<>>})
    /\ LET cleaned == RegularAccountDetailsForm_clean(cust_address[c], location, found)
       IN  /\ response' = [who |-> c, view |-> "EditRegularAccountDetailsView",
                           id |-> 0,
                           outcome |-> IF cleaned.outcome = "valid" THEN "302"
                                       ELSE cleaned.outcome]
           /\ IF cleaned.outcome = "valid"
              THEN /\ cust_address' = [cust_address EXCEPT ![c] = location]
                   /\ cust_loc' = IF location # cust_address[c]
                                  THEN [cust_loc EXCEPT ![c] = cleaned.xy[1]]
                                  ELSE cust_loc
              ELSE UNCHANGED <<cust_address, cust_loc>>
    /\ geocoded' = found
    /\ UNCHANGED <<db, del_loc, del_address, now, reqs, accept_ok, shown, place_failed>>

\* POST to EditDeliveryAccountDetailsView with the text location
EditDeliveryAccountDetailsView_post(d, location, found) ==
    /\ location # ""
    /\ found \in (IF location # del_address[d] THEN geocode(location) ELSE {<<>>})
    /\ LET cleaned == DeliveryAccountDetailsForm_clean(del_address[d], location, found)
       IN  /\ response' = [who |-> d, view |-> "EditDeliveryAccountDetailsView",
                           id |-> 0,
                           outcome |-> IF cleaned.outcome = "valid" THEN "302"
                                       ELSE cleaned.outcome]
           /\ IF cleaned.outcome = "valid"
              THEN /\ del_address' = [del_address EXCEPT ![d] = location]
                   /\ del_loc' = IF location # del_address[d]
                                 THEN [del_loc EXCEPT ![d] = cleaned.xy[1]]
                                 ELSE del_loc
              ELSE UNCHANGED <<del_address, del_loc>>
    /\ geocoded' = found
    /\ UNCHANGED <<db, cust_loc, cust_address, now, reqs, accept_ok, shown, place_failed>>

\* the texts entered into the location field: blank, two addresses Nominatim
\* finds, and one it does not
AddressInputs == {"", "a1", "a2", "zz"}

\* customers and contractors edit their account details while an order is
\* filled, paid, made ready, accepted and delivered, one request at a time
NextAccount ==
    \/ \E c \in {"u1"}, location \in AddressInputs, found \in GeocoderAnswers \cup {<<>>} :
           Quiet /\ EditRegularAccountDetailsView_post(c, location, found)
    \/ \E d \in {"d1"}, location \in AddressInputs, found \in GeocoderAnswers \cup {<<>>} :
           Quiet /\ EditDeliveryAccountDetailsView_post(d, location, found)
    \/ \E c \in {"u1"} : Quiet /\ CreateOrderItemView_get(c, "m1", 1)
    \/ \E rq \in InFlight : CreateOrderItemView_create(rq)
    \/ \E rq \in InFlight : CreateOrderItemView_insert(rq)
    \/ \E c \in {"u1"}, o \in OrderIds : Quiet /\ PlaceOrderView_get(c, o)
    \/ \E rq \in InFlight : PlaceOrderView_calc(rq)
    \/ \E rq \in InFlight : PlaceOrderView_pay(rq)
    \/ \E rq \in InFlight : PlaceOrderView_save(rq)
    \/ \E r \in Restaurants, o \in OrderIds : Quiet /\ restaurant_orders_list_get(r, o)
    \/ \E rq \in InFlight : restaurant_orders_list_save(rq)
    \/ \E d \in {"d1"}, o \in OrderIds : Quiet /\ delivery_orders_list_accept_get(d, o)
    \/ \E rq \in InFlight : delivery_orders_list_accept_save(rq)
    \/ \E d \in {"d1"}, o \in OrderIds : Quiet /\ delivery_orders_list_delivered_get(d, o)
    \/ \E rq \in InFlight : delivery_orders_list_delivered_save(rq)

SpecAccount == Init /\ [][NextAccount]_vars


(***************************************************************************)
(* The properties.                                                         *)
(***************************************************************************)
\* the max_distance values (miles) the queue is asked with
DistanceBounds == {1, 5, 7}

\* the Payment rows of order o
PaymentsOf(o) == {p \in payments : p.order = o}

\* C1: two contractors racing to accept the same order never both succeed:
\* at most one contractor ever gets a successful accept of an order.
C1_OneAcceptWins ==
    \A o \in DOMAIN orders :
        Cardinality({d \in Contractors : <<d, o>> \in accept_ok}) <= 1

\* C2: once accepted_by of an order is set, no later step changes or clears it.
C2_AssignmentIsFinal ==
    [][\A o \in DOMAIN orders :
           orders[o].accepted_by # NoContractor
               => orders'[o].accepted_by = orders[o].accepted_by]_vars

\* C3: the status of an order never moves to an earlier state of the lifecycle.
C3_NoBackwardTransition ==
    [][\A o \in DOMAIN orders :
           Rank(orders'[o].status) >= Rank(orders[o].status)]_vars

\* C4: every change of an order's status moves it to the immediately
\* following state of the lifecycle.
C4_NoStateSkipped ==
    [][\A o \in DOMAIN orders :
           orders'[o].status # orders[o].status
               => Rank(orders'[o].status) = Rank(orders[o].status) + 1]_vars

\* C5: total_cost is null if and only if the status is NOT_PLACED_YET.
C5_TotalCostNullIffUnplaced ==
    \A o \in DOMAIN orders :
        (orders[o].total_cost = NULL) <=> (orders[o].status = NOT_PLACED_YET)

\* C5 witness: a placed order has gone through the delivery side, after a
\* price edit, and carries its total.
C5_Witness ==
    \E o \in DOMAIN orders :
        /\ orders[o].status = DELIVERED
        /\ orders[o].total_cost # NULL
        /\ orders[o].total_cost # SumCost(ItemsOf(o))

\* C6: once an order has left NOT_PLACED_YET no step changes its total_cost,
\* and calc_total_cost returns the stored value, whatever the prices and the
\* line items have become.
C6_TotalCostFrozen ==
    [][\A o \in DOMAIN orders :
           orders[o].status # NOT_PLACED_YET
               => /\ orders'[o].total_cost = orders[o].total_cost
                  /\ calc_total_cost(orders[o], o)' = orders[o].total_cost]_vars

\* C6 witness: an order past placement whose stored total differs from what
\* its line items cost at the current prices.
C6_Witness ==
    \E o \in DOMAIN orders :
        /\ orders[o].status \in {PLACED, READY_FOR_PICKUP, IN_TRANSIT, DELIVERED}
        /\ Cardinality(ItemsOf(o)) = 2
        /\ orders[o].total_cost # SumCost(ItemsOf(o))

\* C7: in the step that makes an order PLACED, its total_cost is the sum of
\* quantity * price over the line items it holds at that moment, and its
\* Payment carries the same amount.
C7_TotalIsSumAtPlacement ==
    [][\A o \in DOMAIN orders :
           (orders[o].status = NOT_PLACED_YET /\ orders'[o].status = PLACED)
               => /\ orders'[o].total_cost = SumCost(ItemsOf(o))'
                  /\ \E p \in PaymentsOf(o)' :
                         p.amount_paid = orders'[o].total_cost]_vars

\* C8: an order has a Payment exactly when it is no longer NOT_PLACED_YET,
\* date_placed and total_cost are set exactly when the Payment exists, and
\* there is at most one Payment per order.
C8_PlacementAtomic ==
    \A o \in DOMAIN orders :
        /\ (PaymentsOf(o) # {}) <=> (orders[o].status # NOT_PLACED_YET)
        /\ (orders[o].date_placed # NULL) <=> (PaymentsOf(o) # {})
        /\ (orders[o].total_cost # NULL) <=> (PaymentsOf(o) # {})
        /\ Cardinality(PaymentsOf(o)) <= 1

\* C9: a recorded rejection stays recorded, and the order is in the
\* rejecting contractor's unassigned queue neither now nor after any step,
\* for any distance bound.
C9_RejectionPermanent ==
    [][\A x \in rejected :
           /\ x \in rejected'
           /\ \A k \in DistanceBounds :
                  /\ x[2] \notin UnassignedQueue(x[1], k)
                  /\ x[2] \notin UnassignedQueue(x[1], k)']_vars

\* C9 witness: a contractor has rejected an order that is ready for pickup
\* and within 5 miles on both legs.
C9_Witness ==
    \E x \in rejected :
        /\ orders[x[2]].status = READY_FOR_PICKUP
        /\ get_distance_in_miles(RestaurantLoc(orders[x[2]].restaurant), del_loc[x[1]])
               <= 5000
        /\ get_distance_in_miles(cust_loc[orders[x[2]].user], del_loc[x[1]]) <= 5000

\* C10: the step that records contractor d's rejection of a READY_FOR_PICKUP
\* order changes the rejection set by that one pair and nothing else, and the
\* order stays in the unassigned queue of every other contractor who had it.
C10_RejectFrame ==
    [][\A d \in Contractors, o \in DOMAIN orders :
           (/\ <<d, o>> \notin rejected
            /\ <<d, o>> \in rejected'
            /\ orders[o].status = READY_FOR_PICKUP)
               => /\ rejected' = rejected \cup {<<d, o>>}
                  /\ UNCHANGED <<orders, items, payments, price, cust_loc, del_loc>>
                  /\ \A y \in Contractors \ {d}, k \in DistanceBounds :
                         o \in UnassignedQueue(y, k)
                             => o \in UnassignedQueue(y, k)']_vars

\* C10 witness: one contractor has rejected a READY_FOR_PICKUP order that is
\* in the other contractor's 5-mile queue.
C10_Witness ==
    \E d \in Contractors, y \in Contractors, o \in DOMAIN orders :
        /\ d # y
        /\ <<d, o>> \in rejected
        /\ <<y, o>> \notin rejected
        /\ o \in UnassignedQueue(y, 5)

\* C11: a contractor is never added to the rejection set of an order that is
\* assigned to that same contractor: the reject of an order one has accepted
\* fails.
C11_NoRejectOfOwnAcceptedOrder ==
    [][\A d \in Contractors, o \in DOMAIN orders :
           (<<d, o>> \notin rejected /\ <<d, o>> \in rejected')
               => orders[o].accepted_by # d]_vars

\* C12: date_delivered is written once per order: once set, no step changes it.
C12_DeliveredStampedOnce ==
    [][\A o \in DOMAIN orders :
           orders[o].date_delivered # NULL
               => orders'[o].date_delivered = orders[o].date_delivered]_vars

\* the two legs of order o seen from contractor d, in thousandths of a mile
RestaurantLeg(d, o) ==
    get_distance_in_miles(RestaurantLoc(orders[o].restaurant), del_loc[d])

CustomerLeg(d, o) == get_distance_in_miles(cust_loc[orders[o].user], del_loc[d])

\* C13: the unassigned page rendered for contractor c with distance bound d
\* lists an order if and only if it is READY_FOR_PICKUP, c has not rejected it
\* and both the restaurant leg and the customer leg are at most d.
C13_UnassignedQueueExact ==
    [][(shown' # shown /\ shown'.status_queried # "accepted")
           => /\ shown'.orders \subseteq DOMAIN orders
              /\ \A o \in DOMAIN orders :
                     o \in shown'.orders
                         <=> /\ orders[o].status = READY_FOR_PICKUP
                             /\ <<shown'.who, o>> \notin rejected
                             /\ RestaurantLeg(shown'.who, o) <= 1000 * shown'.max_distance
                             /\ CustomerLeg(shown'.who, o) <= 1000 * shown'.max_distance]_vars

\* d1 has read its unassigned page with bound 5 and found it empty while an
\* order it has not rejected is ready with the restaurant 3.459 miles away and
\* the customer 6.918 miles away
C13_Witness ==
    /\ shown.who = "d1" /\ shown.status_queried = "" /\ shown.max_distance = 5
    /\ shown.orders = {}
    /\ \E o \in DOMAIN orders :
           /\ orders[o].status = READY_FOR_PICKUP
           /\ <<"d1", o>> \notin rejected
           /\ RestaurantLeg("d1", o) <= 5000
           /\ CustomerLeg("d1", o) > 5000

\* C14: the unassigned page filters with 5 miles when max_distance is absent,
\* empty, not a number, zero or negative, and with the number supplied when it
\* is an integer of at least 1.
C14_DistanceBoundDefault ==
    [][(shown' # shown /\ shown'.status_queried # "accepted")
           => LET md == shown'.asked
              IN  /\ md = <<>> => shown'.max_distance = 5
                  /\ (md # <<>> /\ \A k \in 1..Len(md[1]) : md[1][k] # ".")
                         => LET n == int_parse(md[1])
                            IN  shown'.max_distance =
                                    IF n # <<>> /\ n[1] >= 1 THEN n[1] ELSE 5
                  /\ shown'.max_distance \in {5} \cup 1..9]_vars

\* d2 asked for max_distance=-3 and was shown an order, whose customer is
\* 3.459 miles away: the page was filtered with 5 miles
C14_Witness ==
    /\ shown.who = "d2" /\ shown.status_queried = ""
    /\ shown.asked = <<<<"-", "3">>>>
    /\ shown.max_distance = 5
    /\ shown.orders # {}

\* C15: the accepted page rendered for contractor c lists exactly the orders
\* that are IN_TRANSIT and accepted by c, whatever their distance.
C15_AcceptedQueueExact ==
    [][(shown' # shown /\ shown'.status_queried = "accepted")
           => shown'.orders =
                  {o \in DOMAIN orders : /\ orders[o].status = IN_TRANSIT
                                         /\ orders[o].accepted_by = shown'.who}]_vars

\* d1's accepted page lists an order whose customer is 6.918 miles away,
\* beyond the default bound of the unassigned page
C15_Witness ==
    /\ shown.who = "d1" /\ shown.status_queried = "accepted"
    /\ \E o \in shown.orders : CustomerLeg("d1", o) > 1000 * DefaultMaxDistance

\* C16: in every reachable state a customer has at most one NOT_PLACED_YET
\* order per restaurant.
C16_OneCartPerRestaurant ==
    \A c \in Customers, r \in Restaurants : Cardinality(CartOrders(c, r)) <= 1

\* request rq sends its response in this step
Responds(rq) == rq \in InFlight /\ reqs' = reqs (-) SetToBag({rq})

\* C17: a menu item appears in at most one line of an order; the add of a menu
\* item the order already contains neither creates a line nor changes one,
\* and a quantity edit of a line that exists replaces that line's quantity.
C17_MenuItemOncePerOrder ==
    [][/\ \A i, j \in items' :
              (i.order = j.order /\ i.menu_item = j.menu_item) => i = j
       /\ \A rq \in InFlight :
              (/\ rq.kind = "add" /\ rq.pc = "insert" /\ Responds(rq)
               /\ \E i \in items : i.order = rq.oid /\ i.menu_item = rq.mid)
                  => items' = items
       /\ \A rq \in InFlight :
              (/\ rq.kind = "edit" /\ rq.pc = "save" /\ Responds(rq)
               /\ \E i \in items : i.id = rq.iid)
                  => items' = {IF i.id = rq.iid THEN [i EXCEPT !.quantity = rq.arg]
                               ELSE i : i \in items}]_vars

\* an add of quantity 2 is about to INSERT its line into an order that
\* already holds the menu item with quantity 1
C17_Witness ==
    \E rq \in InFlight :
        /\ rq.kind = "add" /\ rq.pc = "insert" /\ rq.arg = 2
        /\ \E i \in items :
               i.order = rq.oid /\ i.menu_item = rq.mid /\ i.quantity = 1

\* C18: editing the quantity of a line to 0 removes the line, after which its
\* order does not contain the menu item; an add of a menu item the order does
\* not (or no longer) contain succeeds with a line of a primary key never
\* handed out before and the quantity supplied.
C18_RemoveThenAddFresh ==
    [][/\ \A rq \in InFlight :
              (/\ rq.kind = "edit" /\ rq.pc = "delete" /\ Responds(rq)
               /\ \E i \in items : i.id = rq.iid)
                  => /\ items' = {i \in items : i.id # rq.iid}
                     /\ \A i \in items' :
                            ~(i.order = rq.snap[1].order
                              /\ i.menu_item = rq.snap[1].menu_item)
       /\ \A rq \in InFlight :
              (/\ rq.kind = "add" /\ rq.pc = "insert" /\ Responds(rq)
               /\ ~\E i \in items : i.order = rq.oid /\ i.menu_item = rq.mid)
                  => /\ items' = items \cup {[id |-> item_seq' , order |-> rq.oid,
                                              menu_item |-> rq.mid,
                                              quantity |-> rq.arg]}
                     /\ item_seq' > item_seq
                     /\ \A i \in items : i.id <= item_seq
                     /\ \A x \in InFlight : x.kind = "edit" => x.iid <= item_seq]_vars

\* the round trip has happened on the only order there is: line 1 is gone and
\* the menu item is back as line 2 with quantity 2
C18_Witness ==
    /\ DOMAIN orders = {1}
    /\ orders[1].status = NOT_PLACED_YET
    /\ item_seq = 2
    /\ items = {[id |-> 2, order |-> 1, menu_item |-> "m1", quantity |-> 2]}

\* C19: a Payment is created only for an order that has at least one line
\* item: submitting payment for an order without line items is rejected,
\* already when the payment is the only request in flight.
C19_NoPaymentForEmptyOrder ==
    [][\A o \in DOMAIN orders :
           (/\ PaymentsOf(o) = {} /\ PaymentsOf(o)' # {}
            /\ BagCardinality(reqs) = 1)
               => ItemsOf(o) # {}]_vars

\* C20: a payment submitted for an order that is not the requester's, or that
\* is not NOT_PLACED_YET, fails and changes no table; a payment request goes
\* ahead only for the requester's own NOT_PLACED_YET order, and only such a
\* request creates a Payment or writes total_cost and date_placed.
C20_PlaceOnlyOwnUnplacedOrder ==
    [][/\ place_failed' # place_failed
              => /\ UNCHANGED <<orders, rejected, items, item_seq, payments, price>>
                 /\ LET c == place_failed'[1]
                        o == place_failed'[2]
                    IN  \/ o \notin DOMAIN orders
                        \/ orders[o].user # c
                        \/ orders[o].status # NOT_PLACED_YET
       /\ \A rq \in BagToSet(reqs') :
              rq.kind = "place"
                  => /\ rq.oid \in DOMAIN orders
                     /\ orders[rq.oid].user = rq.who
                     /\ (rq \notin InFlight /\ rq.pc = "calc")
                            => orders[rq.oid].status = NOT_PLACED_YET
       /\ \A o \in DOMAIN orders :
              (\/ PaymentsOf(o)' # PaymentsOf(o)
               \/ orders'[o].total_cost # orders[o].total_cost
               \/ orders'[o].date_placed # orders[o].date_placed)
                  => /\ orders[o].status = NOT_PLACED_YET
                     /\ \A p \in PaymentsOf(o)' : p.user = orders[o].user]_vars

\* u2 has submitted payment for u1's order and failed: the order is still
\* NOT_PLACED_YET without total, date or Payment
C20_Witness ==
    /\ Len(place_failed) = 2
    /\ place_failed[1] = "u2"
    /\ place_failed[2] \in DOMAIN orders
    /\ LET o == place_failed[2]
       IN  /\ orders[o].user = "u1"
           /\ orders[o].status = NOT_PLACED_YET
           /\ orders[o].total_cost = NULL
           /\ orders[o].date_placed = NULL
           /\ ItemsOf(o) # {}
           /\ PaymentsOf(o) = {}

\* C21: a mark-ready request succeeds only on an order of the requester's
\* restaurant that is PLACED at that moment, and changes nothing but the
\* status of that order, to READY_FOR_PICKUP.
C21_MarkReadyOnlyPlaced ==
    [][\A rq \in InFlight :
           (rq.kind = "ready" /\ rq.pc = "save" /\ Responds(rq))
               => /\ orders[rq.oid].restaurant = rq.who
                  /\ orders[rq.oid].status = PLACED
                  /\ orders' = [orders EXCEPT ![rq.oid].status = READY_FOR_PICKUP]]_vars

\* C22: minutes_away of an order changes only while the order is IN_TRANSIT
\* and only by a set-minutes-away request of the contractor it is assigned to.
C22_MinutesOnlyByAssignee ==
    [][\A o \in DOMAIN orders :
           orders'[o].minutes_away # orders[o].minutes_away
               => /\ orders[o].status = IN_TRANSIT
                  /\ \E rq \in InFlight :
                         /\ rq.kind = "minutes" /\ rq.oid = o /\ Responds(rq)
                         /\ rq.who = orders[o].accepted_by]_vars

\* C23: a set-minutes-away request stores the integer supplied, or null when
\* the text is no integer, and changes nothing else of the order: status,
\* accepted_by, total_cost and the timestamps stay as they are.
C23_MinutesFrame ==
    [][\A rq \in InFlight :
           (rq.kind = "minutes" /\ rq.pc = "save" /\ Responds(rq))
               => LET v == int_parse(rq.txt)
                  IN  orders' = [orders EXCEPT ![rq.oid].minutes_away =
                                     IF v = <<>> THEN NULL ELSE v[1]]]_vars

\* C30: a mark-as-delivered request succeeds only for the contractor the
\* order is assigned to: no other contractor's request writes the order.
C30_DeliveredOnlyByAssignee ==
    [][\A rq \in InFlight :
           (rq.kind = "delivered" /\ rq.pc = "save" /\ Responds(rq))
               => rq.who = orders[rq.oid].accepted_by]_vars

\* C26: when an edit to quantity 0 removes the last line item of a
\* NOT_PLACED_YET order, the order is deleted with it.
C26_EmptiedOrderDeleted ==
    [][\A rq \in InFlight :
           (/\ rq.kind = "edit" /\ rq.pc = "delete" /\ Responds(rq)
            /\ \E i \in items : i.id = rq.iid
            /\ orders[rq.snap[1].order].status = NOT_PLACED_YET
            /\ \A i \in items' : i.order # rq.snap[1].order)
               => rq.snap[1].order \notin DOMAIN orders']_vars

\* C27: every stored line item has a quantity of at least 1: no add request
\* with a quantity below 1 gets as far as the order or the line item, and an
\* edit to quantity 0 deletes the line instead of storing 0.
C27_QuantityAtLeastOne ==
    [][/\ \A i \in items' : i.quantity >= 1
       /\ \A rq \in BagToSet(reqs') : rq.kind = "add" => rq.arg >= 1
       /\ \A rq \in InFlight :
              (rq.kind = "edit" /\ rq.arg = 0 /\ rq.pc = "delete" /\ Responds(rq))
                  => \A i \in items' : i.id # rq.iid]_vars

\* the only line stored so far has been edited to quantity 0 and is gone
C27_Witness ==
    /\ item_seq = 1
    /\ items = {}
    /\ reqs = EmptyBag
    /\ DOMAIN orders = {1}

\* the role each kind of request on orders is reserved for
RoleOfKind(kind) ==
    CASE kind \in {"add", "edit", "place"} -> "Reg"
      [] kind = "ready"                    -> "Res"
      [] OTHER                             -> "Del"

Without(tbl, o) == [x \in DOMAIN tbl \ {o} |-> tbl[x]]

\* C25: what a customer gets when viewing, editing or paying by id, and what
\* a restaurant gets when marking ready by id, is the same for an order (or
\* line) of somebody else as it is when that order (or line) does not exist;
\* the answer given is that not-found answer and it changes no table.
C25_NotFoundHidesExistence ==
    [][/\ (orders' # orders \/ items' # items)
              => /\ \A o \in DOMAIN orders', c \in Customers :
                        orders'[o].user # c
                            => /\ ManageOrder_outcome(orders', c, o)
                                      = ManageOrder_outcome(Without(orders', o), c, o)
                               /\ PlaceOrderView_outcome(orders', c, o)
                                      = PlaceOrderView_outcome(Without(orders', o), c, o)
                 /\ \A o \in DOMAIN orders', r \in Restaurants :
                        orders'[o].restaurant # r
                            => restaurant_orders_list_outcome(orders', r, o)
                                   = restaurant_orders_list_outcome(Without(orders', o), r, o)
                 /\ \A i \in items', c \in Customers :
                        orders'[i.order].user # c
                            => EditOrderItemView_outcome(orders', items', c, i.id)
                                   = EditOrderItemView_outcome(orders', items' \ {i}, c, i.id)
       /\ (response' # response
           /\ response'.outcome \in {"Http404", "DoesNotExist"})
              => /\ UNCHANGED <<orders, rejected, items, item_seq, payments, price>>
                 /\ reqs' = reqs
       /\ \A rq \in BagToSet(reqs') \ InFlight :
              /\ (rq.kind = "place" /\ rq.pc = "calc")
                     => PlaceOrderView_outcome(orders, rq.who, rq.oid) = "found"
              /\ (rq.kind = "ready" /\ rq.pc = "save")
                     => restaurant_orders_list_outcome(orders, rq.who, rq.oid) = "found"
              /\ rq.kind = "edit"
                     => EditOrderItemView_outcome(orders, items, rq.who, rq.iid) = "found"]_vars

\* customer u2 has asked ManageOrder for order 1, which exists and is u1's,
\* and got the answer it would get for an id that does not exist
C25_Witness ==
    /\ response = [who |-> "u2", view |-> "ManageOrder", id |-> 1,
                   outcome |-> "Http404"]
    /\ 1 \in DOMAIN orders
    /\ orders[1].user = "u1"
    /\ 2 \notin DOMAIN orders
    /\ ManageOrder_outcome(orders, "u2", 2) = "Http404"

AccountViews == {"EditRegularAccountDetailsView", "EditDeliveryAccountDetailsView"}

\* C28: when the geocoder fails to resolve a newly entered address, the account
\* form ends in a validation error and the stored addresses and coordinates
\* are unchanged.
C28_GeocodingFailureIsValidationError ==
    [][(/\ <<response, geocoded>>' # <<response, geocoded>>
        /\ response'.view \in AccountViews
        /\ geocoded' \in {<<"None">>, <<"GeopyError">>})
           => /\ response'.outcome = "ValidationError"
              /\ UNCHANGED <<cust_loc, cust_address, del_loc, del_address>>]_vars

\* C29: the customer of every READY_FOR_PICKUP or IN_TRANSIT order has a
\* stored coordinate.
C29_ReadyOrdersHaveCoordinates ==
    \A o \in DOMAIN orders :
        orders[o].status \in {READY_FOR_PICKUP, IN_TRANSIT}
            => cust_loc[orders[o].user] # NULL

\* C31: the contractor an order is assigned to has not rejected that order.
C31_AssigneeNeverRejected ==
    \A o \in DOMAIN orders :
        orders[o].accepted_by # NoContractor
            => <<orders[o].accepted_by, o>> \notin rejected

\* C32: an order has a contractor assigned exactly when it is IN_TRANSIT or
\* DELIVERED.
C32_AssignedIffInTransitOrDelivered ==
    \A o \in DOMAIN orders :
        orders[o].accepted_by # NoContractor
            <=> orders[o].status \in {IN_TRANSIT, DELIVERED}

\* an accepted order has been written back by a request that had read it
\* before the accept: it is READY_FOR_PICKUP again, with no contractor
C32_Witness ==
    \E x \in accept_ok :
        /\ orders[x[2]].status = READY_FOR_PICKUP
        /\ orders[x[2]].accepted_by = NoContractor

\* C33: date_placed is set exactly when the status is not NOT_PLACED_YET,
\* date_delivered is set exactly when the status is DELIVERED, and a timestamp
\* that is set never changes.
C33_TimestampsTrackStatus ==
    [][\A o \in DOMAIN orders' :
           /\ orders'[o].date_placed # NULL <=> orders'[o].status # NOT_PLACED_YET
           /\ orders'[o].date_delivered # NULL <=> orders'[o].status = DELIVERED
           /\ (o \in DOMAIN orders /\ orders[o].date_placed # NULL)
                  => orders'[o].date_placed = orders[o].date_placed
           /\ (o \in DOMAIN orders /\ orders[o].date_delivered # NULL)
                  => orders'[o].date_delivered = orders[o].date_delivered]_vars

\* C34: no step adds, changes or deletes a line item of an order whose status
\* is past NOT_PLACED_YET.
C34_PlacedOrderItemsFrozen ==
    [][\A o \in DOMAIN orders :
           orders[o].status # NOT_PLACED_YET
               => {i \in items' : i.order = o} = ItemsOf(o)]_vars

\* C35: every line item is of a menu item of its order's restaurant, and a
\* line is edited or removed only by a request of the customer who owns its
\* order.
C35_OneRestaurantPerOrder ==
    [][/\ \A i \in items' :
              /\ i.order \in DOMAIN orders'
              /\ MenuRestaurant(i.menu_item) = orders'[i.order].restaurant
       /\ \A rq \in BagToSet(reqs') :
              rq.kind = "edit" => orders'[rq.snap[1].order].user = rq.who
       /\ \A i \in items :
              i \notin items'
                  => \E rq \in InFlight :
                         /\ rq.kind = "edit" /\ rq.iid = i.id
                         /\ rq.who = orders[i.order].user
                         /\ CopiesIn(rq, reqs') < CopiesIn(rq, reqs)
       /\ (response' # response /\ response'.view = "EditOrderItemView")
              => UNCHANGED <<orders, items>>]_vars

\* two orders at two restaurants hold a line each, customer u2 has changed
\* the quantity of their own line and has been refused the line of u1
C35_Witness ==
    /\ \E i, j \in items :
           /\ orders[i.order].restaurant # orders[j.order].restaurant
           /\ orders[i.order].user = "u1"
           /\ orders[j.order].user = "u2" /\ j.quantity = MaxQty
           /\ response = [who |-> "u2", view |-> "EditOrderItemView", id |-> i.id,
                          outcome |-> "Http404"]

\* C36: an order is in the accepted queue of at most one contractor, an order
\* in an accepted queue is in no unassigned queue, and an order that some
\* contractor has accepted successfully is on no unassigned page rendered
\* afterwards.
C36_QueuesExclusive ==
    [][/\ \A o \in DOMAIN orders' :
              /\ Cardinality({d \in Contractors : o \in AcceptedQueue(d)'}) <= 1
              /\ (\E d \in Contractors : o \in AcceptedQueue(d)')
                     => \A d \in Contractors, md \in DistanceInputs :
                            o \notin UnassignedQueue(d, max_distance_of(md))'
       /\ (shown' # shown /\ shown'.status_queried # "accepted")
              => \A o \in shown'.orders : \A d \in Contractors : <<d, o>> \notin accept_ok]_vars

\* the POST action a request in flight carries out
ActionOfKind(kind) ==
    CASE kind = "accept"    -> "accept"
      [] kind = "reject"    -> "reject"
      [] kind = "delivered" -> "mark_as_delivered"
      [] OTHER              -> "set_minutes_away"

\* C37: a contractor action that fails (accept on an order that is not
\* READY_FOR_PICKUP or is assigned, mark-as-delivered or set-minutes-away on an
\* order that is not IN_TRANSIT, any action on an order id that does not
\* exist) changes no order and no rejection set; a contractor action goes
\* ahead only for an order its lookup found.
C37_FailedActionMutatesNothing ==
    [][/\ (response' # response /\ response'.view = "delivery_orders_list")
              => /\ UNCHANGED <<orders, rejected, items, item_seq, payments, price>>
                 /\ reqs' = reqs
                 /\ accept_ok' = accept_ok
       /\ \A rq \in BagToSet(reqs') :
              (/\ rq.kind \in {"accept", "reject", "delivered", "minutes"}
               /\ CopiesIn(rq, reqs') > CopiesIn(rq, reqs))
                  => delivery_orders_list_outcome(orders, rq.who,
                                                  ActionOfKind(rq.kind), rq.oid) = "found"
       /\ \A o \in DOMAIN orders :
              (orders'[o] # orders[o] \/ \E d \in Contractors :
                                             <<d, o>> \in rejected' \ rejected)
                  => \E rq \in InFlight : CopiesIn(rq, reqs') < CopiesIn(rq, reqs)]_vars

\* d2's action on order 1 has failed while the order is IN_TRANSIT with d1
\* (an accept of an assigned order), and nothing of d2 is on the order
C37_Witness ==
    /\ response = [who |-> "d2", view |-> "delivery_orders_list", id |-> 1,
                   outcome |-> "DoesNotExist"]
    /\ 1 \in DOMAIN orders
    /\ orders[1].status = IN_TRANSIT /\ orders[1].accepted_by = "d1"
    /\ accept_ok = {<<"d1", 1>>}
    /\ rejected = {}

\* C38: when the restaurant marks PLACED orders ready and the contractors
\* accept READY_FOR_PICKUP orders and mark IN_TRANSIT orders delivered, every
\* placed order is eventually DELIVERED, and a DELIVERED order stays
\* DELIVERED whatever requests run beside it; the status of an order changes
\* only by a step of a request.
C38_ProgressToDelivered ==
    /\ \A o \in OrderIds :
           (o \in DOMAIN orders /\ orders[o].status = PLACED)
               ~> (o \in DOMAIN orders /\ orders[o].status = DELIVERED)
    /\ [][/\ \A o \in DOMAIN orders :
                 orders[o].status = DELIVERED => orders'[o].status = DELIVERED
          /\ orders' # orders => reqs' # reqs]_vars

====
